---- MODULE Spec2Model ----
(***************************************************************************)
(* FlashSourceBuffer (src/src/flash-source-buffer.js): the chunk queue,    *)
(* the paced delivery loop, the update lifecycle and the PTS baseline.     *)
(*                                                                         *)
(* The main context is single threaded: every public method, every         *)
(* onmessage handler, every timer callback and every invocation of a       *)
(* global callback by the SWF runs to completion, so each is one action.   *)
(* The transmuxer worker and the SWF are separate processes that talk to   *)
(* the buffer through FIFO message queues and registered callback names.   *)
(*                                                                         *)
(* Outside the model: the in-band text tracks and cues, the buffered       *)
(* getter, and the relay of the first updateend as loadedmetadata.         *)
(***************************************************************************)
EXTENDS Integers, Sequences, FiniteSets, TLC

----------------------------------------------------------------------------
(* Bounds of the model *)

\* accepted appendBuffer calls
MaxAppends == 2
\* segments (metadata messages) the transmuxer emits in all
MaxSegments == 2
\* chunks the transmuxer produces in all
MaxChunks == 2
\* accepted writes of timestampOffset
MaxOffsetWrites == 1

\* the same four, for the runs that vary the timestamps instead
PtsAppends == 2
PtsSegments == 2
PtsChunks == 1
PtsOffsetWrites == 1

\* inputs
BasePtsValues == {1000, 2000}
SegmentLengths == {0, 10}
CurrentTimes == {3, 7}
OffsetValues ==
  { [type |-> "number", num |-> 0], [type |-> "number", num |-> 5],
    [type |-> "number", num |-> -1], [type |-> "string", num |-> 0] }
RemoveBounds == {0, 10}

Segments == [basePts : BasePtsValues, length : SegmentLengths]

\* what the tech answers to seeking() and currentTime()
TechStates == [seeking : BOOLEAN, currentTime : CurrentTimes]

\* A run fixes the budgets and the inputs the environment draws from.
\* DeliveryRun varies the traffic of chunks and keeps one segment shape;
\* PtsRun varies segments, seeking and offsets and keeps the traffic small.
DeliveryRun ==
  [appends |-> MaxAppends, segments |-> MaxSegments, chunks |-> MaxChunks,
   writes |-> MaxOffsetWrites, perFlush |-> MaxSegments,
   Segments |-> { [basePts |-> 1000, length |-> 10] },
   Tech |-> { [seeking |-> FALSE, currentTime |-> 3] },
   Offsets |-> { [type |-> "number", num |-> 5], [type |-> "number", num |-> -1] }]

\* SerialRun is DeliveryRun with a transmuxer that answers a flush with one
\* segment at most, so an append is never answered by two data messages
SerialRun == [DeliveryRun EXCEPT !.perFlush = 1]

PtsRun ==
  [appends |-> PtsAppends, segments |-> PtsSegments, chunks |-> PtsChunks,
   writes |-> PtsOffsetWrites, perFlush |-> PtsSegments,
   Segments |-> Segments, Tech |-> TechStates, Offsets |-> OffsetValues]

----------------------------------------------------------------------------
(* Numbers: basePtsOffset_ starts as NaN, and NaN absorbs arithmetic *)

NaN == -1000000

isNaN(x) == x = NaN

NumAdd(a, b) == IF isNaN(a) \/ isNaN(b) THEN NaN ELSE a + b

NumMul(a, b) == IF isNaN(a) \/ isNaN(b) THEN NaN ELSE a * b

MathSecond(a, b) == b

MathMax(a, b) == IF a >= b THEN a ELSE b

----------------------------------------------------------------------------
VARIABLES
  buffer_,              \* this.buffer_: chunks queued to be appended
  bufferSize_,          \* this.bufferSize_
  basePtsOffset_,       \* this.basePtsOffset_ (the PTS baseline)
  updating,             \* this.updating
  timestampOffset_,     \* this.timestampOffset_
  readyState,           \* this.mediaSource_.readyState
  throwDataSuperSecret, \* window.throwDataSuperSecret: <<>> when not defined,
                        \* else <<b64str>>, the chunk its closure captured
  ticks,                \* processBuffer_ timeouts scheduled and not yet fired
  toWorker,             \* messages posted to the transmuxer, not yet handled
  fromWorker,           \* messages of the transmuxer, not yet handled
  pushed,               \* transmuxer: appends pushed and not yet flushed
  tags,                 \* transmuxer: segments waiting for convertTagsToData
  emitted,              \* transmuxer: segments emitted so far
  produced,             \* transmuxer: chunks produced so far
  swfPending,           \* SWF: callback names registered, not yet invoked
  step,                 \* what the last operation did (its observable effects)
  accepted,             \* history: appendBuffer calls accepted so far
  writes,               \* history: timestampOffset writes accepted so far
  aborted,              \* history: the appends accepted before the last abort()
  ends,                 \* history: updateend events since the last accept,
                        \*          those of remove() and abort() excluded
  enqueued,             \* history: chunks in the order they joined buffer_
  handed                \* history: chunks in the order processBuffer_ handed
                        \*          them to the SWF (vjs_appendChunkReady)

bufferVars == <<buffer_, bufferSize_, basePtsOffset_, updating, timestampOffset_,
                readyState, throwDataSuperSecret, ticks>>
workerVars == <<toWorker, fromWorker, pushed, tags, emitted, produced>>
historyVars == <<accepted, writes, aborted, ends, enqueued, handed>>
vars == <<bufferVars, workerVars, swfPending, step, historyVars>>

----------------------------------------------------------------------------
(* Helpers *)

Range(s) == { s[i] : i \in 1..Len(s) }

\* the effects of one operation; input is what the operation was given when
\* its effects depend on it (the value written, the segment received)
Effects(op, err, events, posted, swf) ==
  [op |-> op, err |-> err, events |-> events, posted |-> posted, swf |-> swf,
   thrown |-> <<>>, input |-> <<>>]

SwfCall(fn, arg) == [fn |-> fn, arg |-> arg]

----------------------------------------------------------------------------
(* Construction *)

Init ==
  /\ buffer_ = <<>>
  /\ bufferSize_ = 0
  /\ basePtsOffset_ = NaN
  /\ updating = FALSE
  /\ timestampOffset_ = 0
  /\ readyState \in {"closed", "open"}
  /\ throwDataSuperSecret = <<>>
  /\ ticks = 0
  /\ toWorker = << [action |-> "init"] >>
  /\ fromWorker = <<>>
  /\ pushed = <<>>
  /\ tags = <<>>
  /\ emitted = 0
  /\ produced = 0
  /\ swfPending = << "encodedHeaderSuperSecret" >>
  /\ step = Effects("constructor", "", <<>>, << [action |-> "init"] >>,
                    << SwfCall("vjs_appendChunkReady", "encodedHeaderSuperSecret") >>)
  /\ accepted = 0
  /\ writes = 0
  /\ aborted = 0
  /\ ends = 0
  /\ enqueued = <<>>
  /\ handed = <<>>

----------------------------------------------------------------------------
(* appendBuffer(bytes); bytes is named by the number of the append *)

AppendThrowsNever == FALSE

AppendThrows == updating

AppendPostsFlushFirst(bytes) ==
  << [action |-> "flush"], [action |-> "push", data |-> bytes] >>

AppendPosts(bytes) ==
  << [action |-> "push", data |-> bytes], [action |-> "flush"] >>

appendBuffer(run) ==
  IF AppendThrows
  THEN /\ step' = Effects("appendBuffer", "InvalidStateError", <<>>, <<>>, <<>>)
       /\ UNCHANGED <<bufferVars, workerVars, swfPending, historyVars>>
  ELSE /\ accepted < run.appends
       /\ updating' = TRUE
       /\ readyState' = "open"
       /\ toWorker' = toWorker \o AppendPosts(accepted + 1)
       /\ step' = Effects("appendBuffer", "", << "update" >>,
                          AppendPosts(accepted + 1), <<>>)
       /\ accepted' = accepted + 1
       /\ ends' = 0
       /\ UNCHANGED <<buffer_, bufferSize_, basePtsOffset_, timestampOffset_,
                      throwDataSuperSecret, ticks, fromWorker, pushed, tags,
                      emitted, produced, swfPending, writes, aborted, enqueued,
                      handed>>

----------------------------------------------------------------------------
(* abort() *)

\* vjs_abort inside the SWF: the callbacks it was asked to invoke and has not
\* yet invoked are either still invoked later or dropped
SwfAfterAbort(pending) ==
  { pending, SelectSeq(pending, LAMBDA n : n # "throwDataSuperSecret") }

abortOnlyWhenUpdating ==
  /\ buffer_' = IF updating THEN <<>> ELSE buffer_
  /\ bufferSize_' = 0
  /\ swfPending' \in SwfAfterAbort(swfPending)
  /\ updating' = FALSE
  /\ step' = Effects("abort", "",
                     IF updating THEN << "updateend" >> ELSE <<>>,
                     <<>>, << SwfCall("vjs_abort", "") >>)
  /\ aborted' = accepted
  /\ UNCHANGED <<basePtsOffset_, timestampOffset_, readyState,
                 throwDataSuperSecret, ticks, workerVars,
                 accepted, writes, ends, enqueued, handed>>

abort ==
  /\ buffer_' = <<>>
  /\ bufferSize_' = 0
  /\ swfPending' \in SwfAfterAbort(swfPending)
  /\ updating' = FALSE
  /\ step' = Effects("abort", "",
                     IF updating THEN << "updateend" >> ELSE <<>>,
                     <<>>, << SwfCall("vjs_abort", "") >>)
  /\ aborted' = accepted
  /\ UNCHANGED <<basePtsOffset_, timestampOffset_, readyState,
                 throwDataSuperSecret, ticks, workerVars,
                 accepted, writes, ends, enqueued, handed>>

----------------------------------------------------------------------------
(* remove(start, end): the cues of the text tracks are not part of the model *)

removeClearsQueue(start, end) ==
  /\ buffer_' = <<>>
  /\ step' = Effects("remove", "", << "update", "updateend" >>, <<>>, <<>>)
  /\ UNCHANGED <<bufferSize_, basePtsOffset_, updating, timestampOffset_,
                 readyState, throwDataSuperSecret, ticks, workerVars,
                 swfPending, historyVars>>

remove(start, end) ==
  /\ step' = Effects("remove", "", << "update", "updateend" >>, <<>>, <<>>)
  /\ UNCHANGED <<bufferVars, workerVars, swfPending, historyVars>>

----------------------------------------------------------------------------
(* timestampOffset: getter and setter *)

timestampOffset == timestampOffset_

OffsetAcceptedAnyNumber(val) == val.type = "number"

OffsetAccepted(val) == val.type = "number" /\ val.num >= 0

setTimestampOffsetKeepsBaseline(val, run) ==
  IF OffsetAccepted(val)
  THEN /\ writes < run.writes
       /\ writes' = writes + 1
       /\ timestampOffset_' = val.num
       /\ toWorker' = Append(toWorker, [action |-> "reset"])
       /\ step' = [Effects("timestampOffset", "", <<>>,
                           << [action |-> "reset"] >>,
                           << SwfCall("vjs_discontinuity", "") >>)
                     EXCEPT !.input = val]
       /\ UNCHANGED <<buffer_, bufferSize_, basePtsOffset_, updating, readyState,
                      throwDataSuperSecret, ticks, fromWorker, pushed, tags,
                      emitted, produced, swfPending, accepted, aborted, ends,
                      enqueued, handed>>
  ELSE /\ step' = [Effects("timestampOffset", "", <<>>, <<>>, <<>>)
                     EXCEPT !.input = val]
       /\ UNCHANGED <<bufferVars, workerVars, swfPending, historyVars>>

setTimestampOffset(val, run) ==
  IF OffsetAccepted(val)
  THEN /\ writes < run.writes
       /\ writes' = writes + 1
       /\ timestampOffset_' = val.num
       /\ basePtsOffset_' = NaN
       /\ toWorker' = Append(toWorker, [action |-> "reset"])
       /\ step' = [Effects("timestampOffset", "", <<>>,
                           << [action |-> "reset"] >>,
                           << SwfCall("vjs_discontinuity", "") >>)
                     EXCEPT !.input = val]
       /\ UNCHANGED <<buffer_, bufferSize_, updating, readyState,
                      throwDataSuperSecret, ticks, fromWorker, pushed, tags,
                      emitted, produced, swfPending, accepted, aborted, ends,
                      enqueued, handed>>
  ELSE /\ step' = [Effects("timestampOffset", "", <<>>, <<>>, <<>>)
                     EXCEPT !.input = val]
       /\ UNCHANGED <<bufferVars, workerVars, swfPending, historyVars>>

----------------------------------------------------------------------------
(* calculateTargetPts_(basePts, length): the baseline it leaves and the     *)
(* target it returns; seeking and currentTime are what the tech answers     *)

BaselineOfEverySegment(base, basePts, length) ==
  IF length # 0 THEN basePts ELSE base

BaselineAfter(base, basePts, length) ==
  IF isNaN(base) /\ length # 0 THEN basePts ELSE base

calculateTargetPts_(base, basePts, length, seeking, currentTime) ==
  LET trimmed == IF seeking
                 THEN MathMax(0, currentTime - timestampOffset)
                 ELSE 0
  IN  NumAdd(NumMul(trimmed, 1000), BaselineAfter(base, basePts, length))

----------------------------------------------------------------------------
(* transmuxer_.onmessage: the oldest message of the worker is handled *)

receiveBuffer_(segment, seeking, currentTime) ==
  LET targetPts == calculateTargetPts_(basePtsOffset_, segment.basePts,
                                       segment.length, seeking, currentTime)
      request == [action |-> "convertTagsToData", targetPts |-> targetPts]
  IN  /\ basePtsOffset_' = BaselineAfter(basePtsOffset_, segment.basePts,
                                         segment.length)
      /\ toWorker' = Append(toWorker, request)
      /\ step' = [Effects("metadata", "", <<>>, << request >>, <<>>)
                    EXCEPT !.input = [segment |-> segment, seeking |-> seeking,
                                      currentTime |-> currentTime]]

ConcatInFront(buf, b64) == b64 \o buf

Concat(buf, b64) == buf \o b64

onmessageMetadata(run) ==
  /\ fromWorker # <<>>
  /\ Head(fromWorker).action = "metadata"
  /\ \E tech \in run.Tech :
       receiveBuffer_(Head(fromWorker).segment, tech.seeking, tech.currentTime)
  /\ fromWorker' = Tail(fromWorker)
  /\ UNCHANGED <<buffer_, bufferSize_, updating, timestampOffset_, readyState,
                 throwDataSuperSecret, ticks, pushed, tags, emitted, produced,
                 swfPending, historyVars>>

onmessageData ==
  /\ fromWorker # <<>>
  /\ Head(fromWorker).action = "data"
  /\ buffer_' = Concat(buffer_, Head(fromWorker).b64)
  /\ ticks' = ticks + 1
  /\ fromWorker' = Tail(fromWorker)
  /\ enqueued' = enqueued \o Head(fromWorker).b64
  /\ step' = Effects("data", "", <<>>, <<>>, <<>>)
  /\ UNCHANGED <<bufferSize_, basePtsOffset_, updating, timestampOffset_,
                 readyState, throwDataSuperSecret, toWorker, pushed, tags,
                 emitted, produced, swfPending, accepted, writes, aborted, ends,
                 handed>>

----------------------------------------------------------------------------
(* processBuffer_: one scheduled tick fires *)

\* this.buffer_.shift(): the chunk taken and the queue left
ShiftLast(buf) ==
  [b64str |-> buf[Len(buf)], rest |-> SubSeq(buf, 1, Len(buf) - 1)]

Shift(buf) == [b64str |-> Head(buf), rest |-> Tail(buf)]

processBuffer_ ==
  /\ ticks > 0
  /\ ticks' = ticks - 1
  /\ IF Len(buffer_) = 0
     THEN /\ updating' = FALSE
          /\ step' = Effects("processBuffer_", "",
                             IF updating # FALSE THEN << "updateend" >> ELSE <<>>,
                             <<>>, <<>>)
          /\ ends' = IF updating # FALSE THEN ends + 1 ELSE ends
          /\ UNCHANGED <<buffer_, throwDataSuperSecret, swfPending, handed>>
     ELSE /\ buffer_' = Shift(buffer_).rest
          /\ throwDataSuperSecret' = << Shift(buffer_).b64str >>
          /\ swfPending' = Append(swfPending, "throwDataSuperSecret")
          /\ handed' = Append(handed, Shift(buffer_).b64str)
          /\ step' = Effects("processBuffer_", "", <<>>, <<>>,
                             << SwfCall("vjs_appendChunkReady",
                                        "throwDataSuperSecret") >>)
          /\ UNCHANGED <<updating, ends>>
  /\ UNCHANGED <<bufferSize_, basePtsOffset_, timestampOffset_, readyState,
                 workerVars, accepted, writes, aborted, enqueued>>

----------------------------------------------------------------------------
(* The SWF invokes the oldest callback name it was given *)

\* window.encodedHeaderSuperSecret deletes itself and throws the FLV header
swfInvokesHeader ==
  /\ swfPending # <<>>
  /\ Head(swfPending) = "encodedHeaderSuperSecret"
  /\ swfPending' = Tail(swfPending)
  /\ step' = Effects("encodedHeaderSuperSecret", "", <<>>, <<>>, <<>>)
  /\ UNCHANGED <<bufferVars, workerVars, historyVars>>

\* the test of the closure: another tick, or the end of the update
RearmAboveOne(buf) == Len(buf) > 1

Rearm(buf) == Len(buf) # 0

\* window.throwDataSuperSecret as processBuffer_ last defined it; when it was
\* deleted the SWF's call finds no function and gets no chunk
swfInvokesThrowData ==
  /\ swfPending # <<>>
  /\ Head(swfPending) = "throwDataSuperSecret"
  /\ swfPending' = Tail(swfPending)
  /\ IF throwDataSuperSecret = <<>>
     THEN /\ step' = Effects("throwDataSuperSecret", "TypeError", <<>>, <<>>, <<>>)
          /\ UNCHANGED <<throwDataSuperSecret, ticks, updating, ends>>
     ELSE IF Rearm(buffer_)
          THEN /\ ticks' = ticks + 1
               /\ step' = [Effects("throwDataSuperSecret", "", <<>>, <<>>, <<>>)
                             EXCEPT !.thrown = throwDataSuperSecret]
               /\ UNCHANGED <<throwDataSuperSecret, updating, ends>>
          ELSE /\ throwDataSuperSecret' = <<>>
               /\ updating' = FALSE
               /\ step' = [Effects("throwDataSuperSecret", "",
                                   << "updateend" >>, <<>>, <<>>)
                             EXCEPT !.thrown = throwDataSuperSecret]
               /\ ends' = ends + 1
               /\ UNCHANGED ticks
  /\ UNCHANGED <<buffer_, bufferSize_, basePtsOffset_, timestampOffset_,
                 readyState, workerVars, accepted, writes, aborted, enqueued,
                 handed>>

----------------------------------------------------------------------------
(* The transmuxer worker: it handles the oldest message posted to it.       *)
(* init and reset set the parser up anew; push keeps the bytes; flush       *)
(* emits the segments parsed from the bytes pushed, one metadata message    *)
(* each; convertTagsToData answers with one data message carrying the       *)
(* chunks of the oldest segment not yet converted.                          *)

SegmentSeqs(run) ==
  LET left == run.segments - emitted
      most == IF left < run.perFlush THEN left ELSE run.perFlush
  IN  UNION { [1..k -> run.Segments] : k \in 0..most }

Chunks(app, n) == [i \in 1..n |-> <<app, produced + i>>]

workerInit ==
  /\ toWorker # <<>>
  /\ Head(toWorker).action \in {"init", "reset"}
  /\ toWorker' = Tail(toWorker)
  /\ pushed' = <<>>
  /\ step' = Effects("worker", "", <<>>, <<>>, <<>>)
  /\ UNCHANGED <<bufferVars, fromWorker, tags, emitted, produced, swfPending,
                 historyVars>>

workerPush ==
  /\ toWorker # <<>>
  /\ Head(toWorker).action = "push"
  /\ toWorker' = Tail(toWorker)
  /\ pushed' = Append(pushed, Head(toWorker).data)
  /\ step' = Effects("worker", "", <<>>, <<>>, <<>>)
  /\ UNCHANGED <<bufferVars, fromWorker, tags, emitted, produced, swfPending,
                 historyVars>>

workerFlush(run) ==
  /\ toWorker # <<>>
  /\ Head(toWorker).action = "flush"
  /\ toWorker' = Tail(toWorker)
  /\ pushed' = <<>>
  /\ IF pushed = <<>>
     THEN UNCHANGED <<fromWorker, tags, emitted>>
     ELSE \E segs \in SegmentSeqs(run) :
            LET app == pushed[Len(pushed)]
            IN  /\ fromWorker' = fromWorker \o
                     [i \in 1..Len(segs) |->
                        [action |-> "metadata", segment |-> segs[i], app |-> app]]
                /\ tags' = tags \o [i \in 1..Len(segs) |-> app]
                /\ emitted' = emitted + Len(segs)
  /\ step' = Effects("worker", "", <<>>, <<>>, <<>>)
  /\ UNCHANGED <<bufferVars, produced, swfPending, historyVars>>

workerConvert(run) ==
  /\ toWorker # <<>>
  /\ Head(toWorker).action = "convertTagsToData"
  /\ toWorker' = Tail(toWorker)
  /\ IF tags = <<>>
     THEN /\ fromWorker' = Append(fromWorker,
                                  [action |-> "data", b64 |-> <<>>, app |-> 0])
          /\ UNCHANGED <<tags, produced>>
     ELSE \E n \in 0..(run.chunks - produced) :
            /\ fromWorker' = Append(fromWorker,
                 [action |-> "data", b64 |-> Chunks(Head(tags), n),
                  app |-> Head(tags)])
            /\ tags' = Tail(tags)
            /\ produced' = produced + n
  /\ step' = Effects("worker", "", <<>>, <<>>, <<>>)
  /\ UNCHANGED <<bufferVars, pushed, emitted, swfPending, historyVars>>

----------------------------------------------------------------------------
(* Specifications *)

Step(run) ==
  \/ appendBuffer(run)
  \/ abort
  \/ \E start \in RemoveBounds, end \in RemoveBounds : remove(start, end)
  \/ \E val \in run.Offsets : setTimestampOffset(val, run)
  \/ onmessageMetadata(run)
  \/ onmessageData
  \/ processBuffer_
  \/ swfInvokesHeader
  \/ swfInvokesThrowData
  \/ workerInit
  \/ workerPush
  \/ workerFlush(run)
  \/ workerConvert(run)

Next == Step(DeliveryRun)

Spec == Init /\ [][Next]_vars

PtsNext == Step(PtsRun)

PtsSpec == Init /\ [][PtsNext]_vars

\* The asynchronous parties take their steps: the worker handles every
\* message posted to it, its messages are dispatched to onmessage, timeouts
\* fire, and the SWF invokes the callbacks it was given.  What the caller does
\* (appendBuffer, abort, remove, timestampOffset) is under no obligation.
Fairness ==
  /\ WF_vars(workerInit \/ workerPush \/ workerFlush(DeliveryRun)
               \/ workerConvert(DeliveryRun))
  /\ WF_vars(onmessageMetadata(DeliveryRun) \/ onmessageData)
  /\ WF_vars(processBuffer_)
  /\ WF_vars(swfInvokesHeader \/ swfInvokesThrowData)

SerialNext == Step(SerialRun)

SerialSpec == Init /\ [][SerialNext]_vars

LiveSpec == Init /\ [][Next]_vars /\ Fairness

----------------------------------------------------------------------------
(* Vocabulary of the properties *)

ChunkCallbacks ==
  Cardinality({ i \in 1..Len(swfPending) : swfPending[i] = "throwDataSuperSecret" })

AppendOf(chunk) == chunk[1]

\* append a still has work inside the transmuxer or on its way back
InFlight(a) ==
  \/ \E i \in 1..Len(toWorker) :
       toWorker[i].action = "push" /\ toWorker[i].data = a
  \/ a \in Range(pushed)
  \/ a \in Range(tags)
  \/ \E i \in 1..Len(fromWorker) :
       fromWorker[i].action = "data" /\ fromWorker[i].app = a

\* the transmuxer has answered the flush of append a and its data is to come
Answered(a) ==
  \/ a \in Range(tags)
  \/ \E i \in 1..Len(fromWorker) :
       fromWorker[i].action = "data" /\ fromWorker[i].app = a

Queued(a) == \E i \in 1..Len(buffer_) : AppendOf(buffer_[i]) = a

\* the chunk for which the callback the SWF invokes next was registered: the
\* callbacks waiting are those of the chunks handed last, in their order
Awaited == handed[Len(handed) - ChunkCallbacks + 1]

\* the reset of a timestampOffset write is still to be handled by the
\* transmuxer: whatever the transmuxer has emitted so far, it parsed from
\* bytes pushed before the write
ResetPending == \E i \in 1..Len(toWorker) : toWorker[i].action = "reset"

\* the last operation handed a chunk to the SWF
Handing == step.op = "processBuffer_" /\ step.swf # <<>>

Position(c) == CHOOSE i \in 1..Len(enqueued) : enqueued[i] = c

----------------------------------------------------------------------------
(* Properties *)

\* C1: an appendBuffer called while updating is true throws InvalidStateError
\* and changes nothing: queue, size, updating flag, PTS baseline and the
\* transmuxer's inbox stay as they were and no event is triggered.
C1_AppendWhileUpdatingFails ==
  [][ (step'.op = "appendBuffer" /\ updating) =>
        /\ step'.err = "InvalidStateError"
        /\ step'.events = <<>>
        /\ step'.posted = <<>>
        /\ UNCHANGED <<buffer_, bufferSize_, updating, basePtsOffset_,
                       toWorker, fromWorker, ticks, swfPending>> ]_vars

C1_Witness ==
  /\ step.op = "appendBuffer"
  /\ step.err = "InvalidStateError"
  /\ updating
  /\ buffer_ # <<>>

\* C2: an appendBuffer called while updating is false sets updating, triggers
\* exactly one update event and posts exactly a push carrying the bytes and
\* then a flush, adjacent at the end of the transmuxer's inbox, all in the one
\* call: no message, tick or callback is handled in between.
C2_AcceptedAppendStartsUpdate ==
  [][ (step'.op = "appendBuffer" /\ ~updating) =>
        /\ step'.err = ""
        /\ updating'
        /\ step'.events = << "update" >>
        /\ step'.posted = << [action |-> "push", data |-> accepted'],
                             [action |-> "flush"] >>
        /\ toWorker' = toWorker \o step'.posted
        /\ UNCHANGED <<buffer_, fromWorker, ticks, swfPending>> ]_vars

C2_Witness ==
  /\ step.op = "appendBuffer"
  /\ step.err = ""
  /\ updating
  /\ accepted = 2
  /\ Len(toWorker) >= 2
  /\ toWorker[Len(toWorker) - 1] = [action |-> "push", data |-> 2]
  /\ toWorker[Len(toWorker)] = [action |-> "flush"]

\* C3: once the transmuxer has answered the flush of an accepted append,
\* updating becomes false again with the queue drained, abort or no abort,
\* provided the worker, the message dispatch, the timer and the SWF keep
\* taking their steps.
C3_UpdatingEventuallyEnds ==
  (updating /\ Answered(accepted)) ~> (~updating /\ buffer_ = <<>>)

\* an update that ended by itself after its last chunk, no abort ever called
C3_Witness ==
  /\ step.op = "throwDataSuperSecret"
  /\ step.events = << "updateend" >>
  /\ aborted = 0
  /\ ~updating
  /\ buffer_ = <<>>
  /\ ~InFlight(accepted)
  /\ Len(handed) >= 2

\* C4: at most one chunk is in flight to the SWF: no chunk callback is
\* registered while an earlier one has not been invoked yet.
C4_AtMostOneChunkInFlight == ChunkCallbacks <= 1

\* C5: the chunks handed to the SWF are whole chunks of the queue, handed in
\* the order they were enqueued.
C5_HandedInEnqueueOrder ==
  /\ \A i \in 1..Len(handed) : handed[i] \in Range(enqueued)
  /\ \A i, j \in 1..Len(handed) :
       i < j => Position(handed[i]) < Position(handed[j])

\* the second chunk of a data message handed over after the first
C5_Witness ==
  /\ Handing
  /\ Len(handed) = 2
  /\ enqueued = handed
  /\ AppendOf(handed[1]) = AppendOf(handed[2])

\* C6: for an accepted append that was not aborted, updateend is triggered at
\* most once, and not before the last chunk the transmuxer produced for it
\* has been handed to the SWF.
C6_UpdateendOnceAfterLastChunk ==
  (accepted > 0 /\ aborted < accepted) =>
     /\ ends <= 1
     /\ ends = 1 => (~InFlight(accepted) /\ ~Queued(accepted))

\* C7: updating goes from true to false only by abort() or when the current
\* append has nothing left in the transmuxer, on its way back or in the queue.
C7_UpdatingHeldUntilDrained ==
  [][ (updating /\ ~updating') =>
        \/ step'.op = "abort"
        \/ (~InFlight(accepted) /\ ~Queued(accepted))' ]_vars

\* C8: right after abort(), whatever the state before, the queue is empty,
\* its size is 0, updating is false and vjs_abort was called exactly once.
C8_AbortLeavesIdle ==
  step.op = "abort" =>
     /\ buffer_ = <<>>
     /\ bufferSize_ = 0
     /\ ~updating
     /\ step.swf = << SwfCall("vjs_abort", "") >>

\* abort() called with the update already over, chunks of a late data
\* message queued and a chunk callback pending in the SWF
C8_Witness ==
  /\ step.op = "abort"
  /\ step.events = <<>>
  /\ Len(enqueued) > Len(handed)
  /\ ChunkCallbacks > 0
  /\ accepted > 0

\* C9: a chunk that reached the queue after an abort() issued later than its
\* appendBuffer is never handed to the SWF.
C9_LateChunksNeverHanded ==
  Handing => AppendOf(handed[Len(handed)]) > aborted

\* C10: in the sequence of chunks handed to the SWF the appends never go
\* back: after a chunk of a later append none of an earlier one follows.
C10_AppendsNotInterleaved ==
  \A i, j \in 1..Len(handed) :
     i < j => AppendOf(handed[i]) <= AppendOf(handed[j])

\* a chunk of the first append handed over after the second was accepted,
\* and a chunk of the second after it
C10_Witness ==
  /\ Len(handed) >= 2
  /\ AppendOf(handed[1]) = 1
  /\ AppendOf(handed[Len(handed)]) = 2
  /\ ends >= 1

\* C11: the PTS baseline goes from unset to a value only when a segment of
\* length > 0 is received while it is unset, and the value is that segment's
\* basePts; a segment of length 0 never sets it, a segment received while it
\* is set never changes it, and nothing but an accepted timestampOffset
\* write, which unsets it, changes it otherwise.
C11_BaselineSetOncePerEpoch ==
  [][ /\ step'.op = "metadata" =>
           basePtsOffset_' =
             IF isNaN(basePtsOffset_) /\ step'.input.segment.length > 0
             THEN step'.input.segment.basePts
             ELSE basePtsOffset_
      /\ step'.op # "metadata" =>
           \/ basePtsOffset_' = basePtsOffset_
           \/ /\ step'.op = "timestampOffset"
              /\ step'.input.type = "number" /\ step'.input.num >= 0
              /\ isNaN(basePtsOffset_') ]_vars

\* a later segment of length > 0 and another basePts received in the epoch
\* the accepted write began, with the baseline staying where the first
\* segment after the write put it
C11_Witness ==
  /\ step.op = "metadata"
  /\ writes = 1
  /\ step.input.segment = [basePts |-> 2000, length |-> 10]
  /\ basePtsOffset_ = 1000

\* C12: a write of a non-negative number to timestampOffset, in whatever
\* state, stores the number (the getter returns it), leaves the PTS baseline
\* unset, calls vjs_discontinuity once and posts one reset to the transmuxer,
\* and raises no error.
C12_AcceptedWriteResets ==
  [][ (/\ step'.op = "timestampOffset"
       /\ step'.input.type = "number"
       /\ step'.input.num >= 0) =>
        /\ timestampOffset' = step'.input.num
        /\ isNaN(basePtsOffset_')
        /\ step'.err = ""
        /\ step'.swf = << SwfCall("vjs_discontinuity", "") >>
        /\ step'.posted = << [action |-> "reset"] >>
        /\ toWorker' = toWorker \o step'.posted ]_vars

\* the write made in the middle of an update, a chunk waiting in the queue
C12_Witness ==
  /\ step.op = "timestampOffset"
  /\ step.input = [type |-> "number", num |-> 5]
  /\ timestampOffset = 5
  /\ isNaN(basePtsOffset_)
  /\ updating
  /\ buffer_ # <<>>

\* C13: a write of a negative number or of a value that is no number to
\* timestampOffset changes nothing: the stored offset, the PTS baseline, the
\* queue, updating and all the rest keep their values, no error is raised,
\* vjs_discontinuity is not called and no reset is posted.
C13_RejectedWriteIgnored ==
  [][ (/\ step'.op = "timestampOffset"
       /\ (step'.input.type # "number" \/ step'.input.num < 0)) =>
        /\ step'.err = ""
        /\ step'.events = <<>>
        /\ step'.swf = <<>>
        /\ step'.posted = <<>>
        /\ UNCHANGED <<bufferVars, workerVars, swfPending, historyVars>> ]_vars

\* a negative number written in the middle of an update, with an offset
\* stored and a baseline set that a reset would have lost
C13_Witness ==
  /\ step.op = "timestampOffset"
  /\ step.input = [type |-> "number", num |-> -1]
  /\ timestampOffset = 5
  /\ ~isNaN(basePtsOffset_)
  /\ updating

\* C14: remove(start, end), in whatever state, leaves the queue, updating and
\* the PTS baseline as they were, triggers exactly update and then updateend
\* inside the call, and posts nothing to the transmuxer and calls nothing of
\* the SWF.
C14_RemoveIsNoOp ==
  [][ step'.op = "remove" =>
        /\ step'.err = ""
        /\ step'.events = << "update", "updateend" >>
        /\ step'.posted = <<>>
        /\ step'.swf = <<>>
        /\ UNCHANGED <<buffer_, bufferSize_, updating, basePtsOffset_,
                       timestampOffset_, ticks, toWorker, fromWorker,
                       throwDataSuperSecret, swfPending>> ]_vars

\* remove() called in the middle of an update, a chunk waiting in the queue
C14_Witness ==
  /\ step.op = "remove"
  /\ updating
  /\ buffer_ # <<>>
  /\ ~isNaN(basePtsOffset_)

\* C15: a chunk handed to the SWF is received by it, once: when the SWF
\* invokes the callback registered for a chunk, the call yields that very
\* chunk, not none and not another one.
C15_CallbackYieldsItsChunk ==
  [][ step'.op = "throwDataSuperSecret" => step'.thrown = << Awaited >> ]_vars

\* C16: receiving a metadata message posts exactly one convertTagsToData
\* request, and its targetPts is the PTS baseline as it stands after the
\* segment (unset when the baseline is unset) plus, when the tech is seeking,
\* 1000 times the larger of 0 and currentTime - timestampOffset.
C16_TargetPtsFromBaseline ==
  [][ step'.op = "metadata" =>
        LET input == step'.input
            ahead == input.currentTime - timestampOffset
            trim == IF input.seeking /\ ahead > 0 THEN 1000 * ahead ELSE 0
        IN  /\ Len(step'.posted) = 1
            /\ step'.posted[1].action = "convertTagsToData"
            /\ toWorker' = toWorker \o step'.posted
            /\ step'.posted[1].targetPts =
                 IF isNaN(basePtsOffset_') THEN NaN ELSE basePtsOffset_' + trim
      ]_vars

\* a segment received while seeking to a time two seconds ahead of the offset
C16_Witness ==
  /\ step.op = "metadata"
  /\ step.input.seeking
  /\ step.input.currentTime = 7
  /\ timestampOffset = 5
  /\ basePtsOffset_ = 1000
  /\ step.posted[1].targetPts = 3000

\* C17: whenever updating is false the buffer is idle: the queue is empty and
\* no chunk callback waits for the SWF; a chunk is queued or on its way to the
\* SWF only while updating is true.
C17_IdleWhenNotUpdating ==
  ~updating => (buffer_ = <<>> /\ ChunkCallbacks = 0)

\* C18: apart from remove(), updateend is triggered only by a step that takes
\* updating from true to false, so that no more updateend events of this
\* kind are triggered than appendBuffer calls were accepted.
C18_UpdateendOnlyWhenUpdateEnds ==
  [][ (/\ step'.op # "remove"
       /\ \E i \in 1..Len(step'.events) : step'.events[i] = "updateend") =>
        (updating /\ ~updating') ]_vars

\* C19: after an accepted timestampOffset write the PTS baseline is not set
\* from a segment of an append issued before the write: as long as the reset
\* of the write has not reached the transmuxer, every segment received stems
\* from such an append, so the baseline stays unset.
C19_StaleSegmentNeverSetsBaseline ==
  ResetPending => isNaN(basePtsOffset_)

\* C20: the targetPts of every convertTagsToData request is a defined
\* number, also when the segment received has length 0 and the PTS baseline
\* is still unset.
C20_TargetPtsDefined ==
  step.op = "metadata" =>
     \A i \in 1..Len(step.posted) : ~isNaN(step.posted[i].targetPts)

====
